---------------------------- MODULE Spec2Model ----------------------------
(***************************************************************************)
(* A model of hyperfind (src/main.rs): the usage store, the ranking of     *)
(* the catalog against a query, the assembly of the view items, the        *)
(* windowed selection, and the launch path that records and saves usage.   *)
(*                                                                         *)
(* Strings are sequences of one-character strings over the ASCII letters   *)
(* listed in Ord; Rust's byte-wise String ordering is the lexicographic    *)
(* ordering of the Ord codes.  u64 and i64 are modelled at a width of      *)
(* WordBits bits (two's complement), because the integers of the model     *)
(* checker are narrower than 64 bits; every cast, multiplication and       *)
(* addition keeps that width.                                              *)
(***************************************************************************)
EXTENDS Integers, Sequences, FiniteSets, TLC

VARIABLES
    pc,               \* "init" | "running" | "quit" | "panicked": the process
    overflow_checks,  \* build profile: TRUE = arithmetic overflow panics (debug)
    apps,             \* LauncherState.apps: the catalog, Seq of AppEntry
    usage,            \* LauncherState.usage: the UsageMap, a set of records
    file,             \* the persisted usage.json
    now,              \* the wall clock, in seconds since the epoch
    query,            \* the query the items were last built from
    items,            \* ViewState.items
    offset,           \* ViewState.offset
    selected_index,   \* ViewState.selected_index: <<>> is None, <<i>> is Some(i)
    results,          \* LauncherState.results: the row table of render_view
    selected_row,     \* the highlighted row of the listbox: <<>> or <<row>>
    last_event,       \* the last handler that ran, with its inputs and outcome
    runs              \* number of process starts so far

vars == <<pc, overflow_checks, apps, usage, file, now, query, items, offset,
          selected_index, results, selected_row, last_event, runs>>

----------------------------------------------------------------------------
(* Bounds of the model *)

WordBits == 16      \* modelled width of u64 / i64
MaxTime == 1        \* the wall clock ranges over 0..MaxTime
MaxRuns == 2        \* process starts per behaviour
BigN == 12          \* size of the large catalog
LongN == 25         \* size of the long catalog
ShapeLen == 12      \* length of the item lists of arbitrary shape

(* Program constants *)

MAX_RESULTS == 10
MAX_FREQUENT == 5

----------------------------------------------------------------------------
(* Strings *)

Ord(c) ==
    CASE c = " " -> 32
      [] c = "A" -> 65
      [] c = "B" -> 66
      [] c = "C" -> 67
      [] c = "a" -> 97
      [] c = "b" -> 98
      [] c = "c" -> 99
      [] c = "d" -> 100

LowerChar(c) ==
    CASE c = "A" -> "a"
      [] c = "B" -> "b"
      [] c = "C" -> "c"
      [] OTHER -> c

\* str::to_lowercase
to_lowercase(s) == [i \in 1..Len(s) |-> LowerChar(s[i])]

RECURSIVE TrimStart(_)
TrimStart(s) ==
    IF s # <<>> /\ Head(s) = " " THEN TrimStart(Tail(s)) ELSE s

RECURSIVE TrimEnd(_)
TrimEnd(s) ==
    IF s # <<>> /\ s[Len(s)] = " " THEN TrimEnd(SubSeq(s, 1, Len(s) - 1)) ELSE s

\* str::trim
trim(s) == TrimEnd(TrimStart(s))

\* str::contains(&str)
contains(s, t) ==
    \E i \in 0..(Len(s) - Len(t)) : SubSeq(s, i + 1, i + Len(t)) = t

\* Ord for String: byte-wise lexicographic, a proper prefix first
RECURSIVE StrLess(_, _)
StrLess(s, t) ==
    IF t = <<>> THEN FALSE
    ELSE IF s = <<>> THEN TRUE
    ELSE IF Ord(Head(s)) # Ord(Head(t)) THEN Ord(Head(s)) < Ord(Head(t))
    ELSE StrLess(Tail(s), Tail(t))

\* F(x), with x evaluated once and then passed by value
Force(x, F(_)) == CHOOSE r \in {F(v) : v \in {x}} : TRUE

\* the sequence [i \in 1..Len(s) |-> F(s[i])], as a tuple
MapSeq(s, F(_)) == <<>> \o [i \in 1..Len(s) |-> F(s[i])]

\* slice::sort_by: a stable sort; Less(a, b) is cmp(a, b) = Ordering::Less.
\* Element i lands after every element that compares less and after every
\* earlier element that compares equal: rank[i] counts them.
SortBy(s, Less(_, _)) ==
    Force(s, LAMBDA v :
      Force(<<>> \o [i \in 1..Len(v) |->
                       Cardinality({j \in 1..Len(v) :
                                      \/ Less(v[j], v[i])
                                      \/ (~Less(v[i], v[j]) /\ j < i)})],
            LAMBDA rank :
              <<>> \o [p \in 1..Len(v) |->
                         v[CHOOSE i \in 1..Len(v) : rank[i] = p - 1]]))

----------------------------------------------------------------------------
(* Integers of width WordBits *)

U64_MAX == 2^WordBits - 1
I64_MAX == 2^(WordBits - 1) - 1
I64_MIN == 0 - 2^(WordBits - 1)

InI64(x) == I64_MIN <= x /\ x <= I64_MAX

\* `u as i64`: reinterprets the bits, never fails
AsI64(u) == IF u > I64_MAX THEN u - 2^WordBits ELSE u

\* the value a wrapping i64 operation leaves for the mathematical result x
WrapI64(x) == ((x - I64_MIN) % 2^WordBits) + I64_MIN

\* u64::saturating_add
saturating_add(a, b) == IF a + b > U64_MAX THEN U64_MAX ELSE a + b

Min(a, b) == IF a < b THEN a ELSE b
Max(a, b) == IF a < b THEN b ELSE a

----------------------------------------------------------------------------
(* The usage store: a UsageMap is a set of records [key, count, last_used] *)

HasUsage(u, key) == \E r \in u : r.key = key

\* HashMap::get on a key that is present
UsageGet(u, key) == CHOOSE r \in u : r.key = key

UsageKeys(u) == {r.key : r \in u}

\* The mutant of record_usage: a wrapping increment
record_usage_wrapping(key, u, t) ==
    LET old == IF HasUsage(u, key) THEN UsageGet(u, key)
               ELSE [key |-> key, count |-> 0, last_used |-> 0]
    IN (u \ {r \in u : r.key = key})
         \cup {[key |-> key, count |-> (old.count + 1) % (U64_MAX + 1),
                last_used |-> t]}

\* record_usage(key, usage), with t the value now_unix() returns
record_usage(key, u, t) ==
    LET old == IF HasUsage(u, key) THEN UsageGet(u, key)
               ELSE [key |-> key, count |-> 0, last_used |-> 0]
    IN (u \ {r \in u : r.key = key})
         \cup {[key |-> key, count |-> saturating_add(old.count, 1),
                last_used |-> t]}

\* usage.json: [kind |-> "missing"], [kind |-> "unreadable"], or
\* [kind |-> "text", complete, members]: a JSON object given by its set of
\* members <<key, count, last_used>>; complete = FALSE is a truncated text.
MissingFile == [kind |-> "missing"]
UnreadableFile == [kind |-> "unreadable"]
TextFile(complete, members) ==
    [kind |-> "text", complete |-> complete, members |-> members]

\* serde_json::to_string(usage)
to_string(u) == {<<r.key, r.count, r.last_used>> : r \in u}

\* serde_json::from_str: <<>> is Err, <<map>> is Ok(map).  A text that ends
\* early, or a number that is no u64, is an error.
from_str(f) ==
    IF ~f.complete THEN <<>>
    ELSE IF \E m \in f.members : ~(m[2] \in 0..U64_MAX /\ m[3] \in 0..U64_MAX)
    THEN <<>>
    ELSE <<{[key |-> m[1], count |-> m[2], last_used |-> m[3]] : m \in f.members}>>

\* The mutant of load_usage: the members read before the error are kept
load_usage_partial(f) ==
    IF f.kind # "text" THEN {}
    ELSE {[key |-> m[1], count |-> m[2], last_used |-> m[3]] :
            m \in {x \in f.members : x[2] \in 0..U64_MAX /\ x[3] \in 0..U64_MAX}}

\* load_usage()
load_usage(f) ==
    IF f.kind # "text" THEN {}
    ELSE IF from_str(f) = <<>> THEN {}
    ELSE from_str(f)[1]

\* The outcomes of save_usage(usage) on the file f: the write succeeds, or
\* nothing is written (no HOME, create_dir_all fails, the open fails), or
\* fs::write fails after truncating the file.
save_usage_outcomes(u, f) ==
    {[ok |-> TRUE, file |-> TextFile(TRUE, to_string(u))],
     [ok |-> FALSE, file |-> f],
     [ok |-> FALSE, file |-> TextFile(FALSE, {})]}

----------------------------------------------------------------------------
(* strsim::jaro_winkler (crate strsim 0.11), in exact rational arithmetic:  *)
(* a similarity is a pair <<n, d>> standing for n / d.                      *)

\* The matching pass of generic_jaro over a[i..]: the flags of a and of b
RECURSIVE JaroFlags(_, _, _, _, _)
JaroFlags(a, b, i, aflags, bflags) ==
    IF i > Len(a) THEN [a |-> aflags, b |-> bflags]
    ELSE
      LET search_range == Max(Max(Len(a), Len(b)) \div 2 - 1, 0)
          \* i0 is the zero-based index of the source
          i0 == i - 1
          min_bound == IF i0 > search_range THEN i0 - search_range ELSE 0
          max_bound == Min(Len(b), i0 + search_range + 1)
          cand == {j \in (min_bound + 1)..max_bound :
                     a[i] = b[j] /\ j \notin bflags}
      IN IF cand = {} THEN JaroFlags(a, b, i + 1, aflags, bflags)
         ELSE LET j == CHOOSE x \in cand : \A y \in cand : x <= y
              IN JaroFlags(a, b, i + 1, aflags \cup {i}, bflags \cup {j})

\* the flagged elements of s, in order
Flagged(s, flags) == SelectSeq([i \in 1..Len(s) |-> <<i, s[i]>>],
                               LAMBDA e : e[1] \in flags)

\* the value of generic_jaro for the match and transposition counts
JaroValue(la, lb, matches, transpositions) ==
    IF matches = 0 THEN <<0, 1>>
    ELSE <<matches * lb * matches + matches * la * matches
             + (matches - transpositions) * la * lb,
           3 * la * lb * matches>>

\* half the number of matched positions whose characters differ
Transpositions(ma, mb) ==
    Cardinality({k \in 1..Len(ma) : ma[k][2] # mb[k][2]}) \div 2

generic_jaro(a, b) ==
    IF Len(a) = 0 /\ Len(b) = 0 THEN <<1, 1>>
    ELSE IF Len(a) = 0 \/ Len(b) = 0 THEN <<0, 1>>
    ELSE Force(JaroFlags(a, b, 1, {}, {}), LAMBDA fl :
           JaroValue(Len(a), Len(b), Cardinality(fl.a),
                     Transpositions(Flagged(a, fl.a), Flagged(b, fl.b))))

\* the length of the common prefix, at most 4
PrefixLength(a, b) ==
    Cardinality({k \in 1..Min(4, Min(Len(a), Len(b))) :
                   \A m \in 1..k : a[m] = b[m]})

jaro_winkler(a, b) ==
    Force(generic_jaro(a, b), LAMBDA sim :
      IF 10 * sim[1] > 7 * sim[2]
      THEN <<10 * sim[1] + PrefixLength(a, b) * (sim[2] - sim[1]), 10 * sim[2]>>
      ELSE sim)

----------------------------------------------------------------------------
(* Ranking *)

\* The mutant of score_match: the similarity threshold is not applied
score_match_no_threshold(name, q) ==
    IF trim(q) = <<>> THEN <<0>>
    ELSE Force(<<to_lowercase(name), to_lowercase(trim(q))>>, LAMBDA l :
           IF contains(l[1], l[2])
           THEN <<1000 - Max(Len(l[1]) - Len(l[2]), 0)>>
           ELSE Force(jaro_winkler(l[1], l[2]), LAMBDA score :
                  <<(1000 * score[1]) \div score[2]>>))

\* score_match(name, query): <<>> is None, <<v>> is Some(v); l is
\* <<name_l, query_l>> and score the similarity as a fraction
score_match(name, q) ==
    IF trim(q) = <<>> THEN <<0>>
    ELSE Force(<<to_lowercase(name), to_lowercase(trim(q))>>, LAMBDA l :
           IF contains(l[1], l[2])
           THEN <<1000 - Max(Len(l[1]) - Len(l[2]), 0)>>
           ELSE Force(jaro_winkler(l[1], l[2]), LAMBDA score :
                  IF 4 * score[1] < 3 * score[2] THEN <<>>
                  ELSE <<(1000 * score[1]) \div score[2]>>))

\* (entry.count as i64 * 1000) + entry.last_used as i64, wrapping
IdleScore(entry) ==
    WrapI64(WrapI64(AsI64(entry.count) * 1000) + AsI64(entry.last_used))

IdleScoreOverflows(entry) ==
    \/ ~InI64(AsI64(entry.count) * 1000)
    \/ ~InI64(WrapI64(AsI64(entry.count) * 1000) + AsI64(entry.last_used))

\* score += entry.count as i64 * 10, wrapping
QueryScore(base, entry) == WrapI64(base + WrapI64(AsI64(entry.count) * 10))

QueryScoreOverflows(base, entry) ==
    \/ ~InI64(AsI64(entry.count) * 10)
    \/ ~InI64(base + WrapI64(AsI64(entry.count) * 10))

\* score_apps(apps, query, usage): a sequence of [score, app]
score_apps(as, q, u) ==
    IF trim(q) = <<>>
    THEN MapSeq(SelectSeq(as, LAMBDA app : HasUsage(u, app.key)),
                LAMBDA app : [score |-> IdleScore(UsageGet(u, app.key)),
                              app |-> app])
    ELSE MapSeq(SelectSeq(MapSeq(as, LAMBDA app :
                                   <<score_match(app.name, q), app>>),
                          LAMBDA e : e[1] # <<>>),
                LAMBDA e : [score |-> IF HasUsage(u, e[2].key)
                                      THEN QueryScore(e[1][1],
                                                      UsageGet(u, e[2].key))
                                      ELSE e[1][1],
                            app |-> e[2]])

\* b.0.cmp(&a.0).then_with(|| a.1.name.cmp(&b.1.name)) is Ordering::Less
ScoredLess(a, b) ==
    \/ b.score < a.score
    \/ (a.score = b.score /\ StrLess(a.app.name, b.app.name))

Header(title) == [kind |-> "Header", title |-> title]
App(app) == [kind |-> "App", app |-> app]
IsApp(item) == item.kind = "App"

Reverse(s) == <<>> \o [i \in 1..Len(s) |-> s[Len(s) + 1 - i]]

\* The mutant of Frequent: entries that compare equal leave the sort in the
\* reverse of the catalog order
Frequent_ties_reversed(as, u) ==
    Force(SortBy(Reverse(score_apps(as, <<>>, u)), ScoredLess), LAMBDA sorted :
      MapSeq(SubSeq(sorted, 1, Min(Len(sorted), MAX_FREQUENT)),
             LAMBDA e : e.app))

\* the frequent list of build_view_items: sorted, then take(MAX_FREQUENT)
Frequent(as, u) ==
    Force(SortBy(score_apps(as, <<>>, u), ScoredLess), LAMBDA sorted :
      MapSeq(SubSeq(sorted, 1, Min(Len(sorted), MAX_FREQUENT)),
             LAMBDA e : e.app))

\* apps.iter().filter(|app| !frequent_keys.contains(&app.key))
RemainingApps(as, frequent) ==
    LET frequent_keys == {frequent[i].key : i \in 1..Len(frequent)}
    IN SelectSeq(as, LAMBDA app : app.key \notin frequent_keys)

\* build_view_items(apps, query, usage), with wrapping arithmetic
build_view_items(as, q, u) ==
    IF trim(q) # <<>>
    THEN MapSeq(SortBy(score_apps(as, q, u), ScoredLess), LAMBDA e : App(e.app))
    ELSE
      Force(Frequent(as, u), LAMBDA frequent :
        (IF frequent # <<>>
         THEN <<Header("Frequently Used")>> \o MapSeq(frequent, App)
         ELSE <<>>)
        \o <<Header("All Apps")>>
        \o MapSeq(RemainingApps(as, frequent), App))

\* Some i64 operation of build_view_items overflows on these inputs
BuildOverflows(as, q, u) ==
    \E i \in 1..Len(as) :
        /\ HasUsage(u, as[i].key)
        /\ IF trim(q) = <<>>
           THEN IdleScoreOverflows(UsageGet(u, as[i].key))
           ELSE \E base \in {score_match(as[i].name, q)} :
                  /\ base # <<>>
                  /\ QueryScoreOverflows(base[1], UsageGet(u, as[i].key))

----------------------------------------------------------------------------
(* The catalog *)

\* usage_key(app, name): id is <<>> (None) or <<id>>
usage_key(id, name) == IF id # <<>> THEN id[1] ELSE name

NameLess(a, b) == StrLess(to_lowercase(a.name), to_lowercase(b.name))

\* load_apps() on the registry snapshot reg that gio::AppInfo::all() returns
load_apps(reg) ==
    LET entry(r) == [key |-> usage_key(r.id, r.name), name |-> r.name,
                     info |-> r.info]
    IN SortBy(MapSeq(SelectSeq(reg, LAMBDA r : r.show /\ trim(r.name) # <<>>),
                     entry),
              NameLess)

----------------------------------------------------------------------------
(* The view: indices are zero-based as in the source, so item idx of the    *)
(* source is its[idx + 1]; an Option<usize> is <<>> (None) or <<i>>.        *)

\* The mutant of first_selectable_index: the first row, whatever it is
first_selectable_index_first_row(its) ==
    IF its = <<>> THEN <<>> ELSE <<0>>

\* first_selectable_index(items)
first_selectable_index(its) ==
    IF \E i \in 1..Len(its) : IsApp(its[i])
    THEN <<(CHOOSE i \in 1..Len(its) :
               IsApp(its[i]) /\ \A j \in 1..(i - 1) : ~IsApp(its[j])) - 1>>
    ELSE <<>>

\* The mutant of next_selectable_index: headers are not skipped
next_selectable_index_any(its, start, direction) ==
    IF start + direction >= 0 /\ start + direction < Len(its)
    THEN <<start + direction>> ELSE <<>>

\* The mutant of next_selectable_index: wraps around at either end
next_selectable_index_wrap(its, start, direction) ==
    LET n == Len(its)
        hits == {k \in 1..n : IsApp(its[((start + k * direction) % n) + 1])}
    IN IF hits = {} THEN <<>>
       ELSE <<(start + (CHOOSE k \in hits : \A m \in hits : k <= m) * direction) % n>>

\* the loop of next_selectable_index, from index
RECURSIVE NextSelectableFrom(_, _, _)
NextSelectableFrom(its, index, direction) ==
    IF ~(index >= 0 /\ index < Len(its)) THEN <<>>
    ELSE IF IsApp(its[index + 1]) THEN <<index>>
    ELSE NextSelectableFrom(its, index + direction, direction)

\* next_selectable_index(items, start, direction)
next_selectable_index(its, start, direction) ==
    NextSelectableFrom(its, start + direction, direction)

\* The for loop of ensure_visible from idx on: the value of last_visible
RECURSIVE LastVisibleFrom(_, _, _, _)
LastVisibleFrom(its, idx, app_count, last_visible) ==
    IF idx >= Len(its) THEN last_visible
    ELSE IF IsApp(its[idx + 1]) /\ app_count >= MAX_RESULTS THEN last_visible
    ELSE LET count == IF IsApp(its[idx + 1]) THEN app_count + 1 ELSE app_count
         IN IF count >= MAX_RESULTS THEN <<idx>>
            ELSE LastVisibleFrom(its, idx + 1, count, <<idx>>)

\* The mutant of EnsureVisibleExits: the selection must lie before the
\* last visible row
EnsureVisibleExits_strict(its, off, selected) ==
    LET last_visible == LastVisibleFrom(its, off, 0, <<>>)
    IN last_visible = <<>> \/ selected < last_visible[1]

\* The outer loop of ensure_visible at the offset off: one of its two
\* breaks is taken (last_visible is None, or selected <= last_visible)
EnsureVisibleExits(its, off, selected) ==
    LET last_visible == LastVisibleFrom(its, off, 0, <<>>)
    IN last_visible = <<>> \/ selected <= last_visible[1]

\* The outer loop of ensure_visible: the offset it stops at
RECURSIVE EnsureVisibleLoop(_, _, _)
EnsureVisibleLoop(its, off, selected) ==
    IF EnsureVisibleExits(its, off, selected) THEN off
    ELSE EnsureVisibleLoop(its, saturating_add(off, 1), selected)

\* The mutant of ensure_visible: never scrolls down
ensure_visible_no_scroll(its, off, sel) ==
    IF sel = <<>> THEN 0
    ELSE IF its = <<>> THEN 0
    ELSE IF Len(its) <= MAX_RESULTS THEN 0
    ELSE IF sel[1] < off THEN sel[1]
    ELSE off

\* The mutant of ensure_visible: scrolling up puts the selection last
ensure_visible_page_up(its, off, sel) ==
    IF sel = <<>> THEN 0
    ELSE IF its = <<>> THEN 0
    ELSE IF Len(its) <= MAX_RESULTS THEN 0
    ELSE IF sel[1] < off THEN Max(sel[1] - (MAX_RESULTS - 1), 0)
    ELSE EnsureVisibleLoop(its, off, sel[1])

\* The mutant of ensure_visible: scrolling down puts the selection first
ensure_visible_jump(its, off, sel) ==
    IF sel = <<>> THEN 0
    ELSE IF its = <<>> THEN 0
    ELSE IF Len(its) <= MAX_RESULTS THEN 0
    ELSE IF sel[1] < off THEN sel[1]
    ELSE IF EnsureVisibleLoop(its, off, sel[1]) = off THEN off
    ELSE sel[1]

\* ensure_visible(view_state): the new offset
ensure_visible(its, off, sel) ==
    IF sel = <<>> THEN 0
    ELSE IF its = <<>> THEN 0
    ELSE IF Len(its) <= MAX_RESULTS THEN 0
    ELSE IF sel[1] < off THEN sel[1]
    ELSE EnsureVisibleLoop(its, off, sel[1])

\* The loop of render_view from idx on: visible_indices
RECURSIVE VisibleFrom(_, _, _)
VisibleFrom(its, idx, app_count) ==
    IF idx >= Len(its) THEN <<>>
    ELSE IF IsApp(its[idx + 1]) /\ app_count >= MAX_RESULTS THEN <<>>
    ELSE <<idx>> \o VisibleFrom(its, idx + 1,
                      IF IsApp(its[idx + 1]) THEN app_count + 1 ELSE app_count)

\* The mutant of visible_indices: the rows are not capped
visible_indices_uncapped(its, off) ==
    <<>> \o [i \in 1..Max(Len(its) - off, 0) |-> off + i - 1]

visible_indices(its, off) == VisibleFrom(its, off, 0)

NoApp == [kind |-> "None"]

\* render_view: the rows pushed into results
render_results(its, off) ==
    MapSeq(visible_indices(its, off),
           LAMBDA idx : IF IsApp(its[idx + 1]) THEN its[idx + 1] ELSE NoApp)

\* render_view: the row select_row highlights (the listbox was cleared)
render_selected_row(its, off, sel) ==
    LET vis == visible_indices(its, off)
    IN IF sel # <<>> /\ \E r \in 1..Len(vis) : vis[r] = sel[1]
       THEN <<(CHOOSE r \in 1..Len(vis) : vis[r] = sel[1]) - 1>>
       ELSE <<>>

\* first_selectable_row(listbox): the first row that is not a section row
first_selectable_row(rows) ==
    IF \E r \in 1..Len(rows) : rows[r] # NoApp
    THEN <<(CHOOSE r \in 1..Len(rows) :
               rows[r] # NoApp /\ \A k \in 1..(r - 1) : rows[k] = NoApp) - 1>>
    ELSE <<>>

----------------------------------------------------------------------------
(* Inputs: registry snapshots, persisted files, queries, clock readings *)

Str1(c) == <<c>>
Str2(c, d) == <<c, d>>
Str3(c, d, e) == <<c, d, e>>

Reg(id, name, show, info) ==
    [id |-> id, name |-> name, show |-> show, info |-> info]

\* Mixed-case names, an entry without id, a hidden entry, a blank name
RegSmall ==
    << Reg(<<Str2("d", "b")>>, Str2("B", "a"), TRUE, 1),
       Reg(<<>>, Str1("b"), TRUE, 2),
       Reg(<<Str2("d", "c")>>, Str1("c"), FALSE, 3),
       Reg(<<Str2("d", "a")>>, Str2("a", "b"), TRUE, 4),
       Reg(<<>>, Str1(" "), TRUE, 5),
       Reg(<<Str2("d", "c")>>, Str3("a", "b", "c"), TRUE, 6) >>

\* Two entries, the second without id
RegPair ==
    << Reg(<<Str2("d", "a")>>, Str2("a", "b"), TRUE, 1),
       Reg(<<>>, Str1("b"), TRUE, 2) >>

\* Six entries, two of them without id and with the same display name
RegTwins ==
    << Reg(<<Str2("d", "a")>>, Str1("a"), TRUE, 1),
       Reg(<<Str2("d", "b")>>, Str1("b"), TRUE, 2),
       Reg(<<Str2("d", "c")>>, Str1("c"), TRUE, 3),
       Reg(<<Str2("d", "d")>>, Str1("d"), TRUE, 4),
       Reg(<<>>, Str2("a", "b"), TRUE, 5),
       Reg(<<>>, Str2("a", "b"), TRUE, 6) >>

\* BigN entries named "a", entry i with the id "d" repeated i times
RegBig ==
    [i \in 1..BigN |-> Reg(<<[k \in 1..i |-> "d"]>>, Str1("a"), TRUE, i)]

\* LongN entries named "a", entry i with the id "d" repeated i times
RegLong ==
    [i \in 1..LongN |-> Reg(<<[k \in 1..i |-> "d"]>>, Str1("a"), TRUE, i)]

\* Nothing to show: the only application is hidden
RegNone ==
    << Reg(<<Str2("d", "a")>>, Str1("a"), FALSE, 1) >>

Registries == {RegSmall, RegTwins, RegBig, RegNone}

InitFiles ==
    { MissingFile,
      UnreadableFile,
      TextFile(FALSE, {<<Str2("d", "a"), 1, 1>>}),
      TextFile(TRUE, {<<Str2("d", "a"), 1, 1>>, <<Str2("d", "b"), 0 - 1, 1>>}),
      TextFile(TRUE, {}),
      TextFile(TRUE, {<<Str2("d", "a"), 1, 1>>, <<Str1("b"), 1, 1>>}),
      TextFile(TRUE, {<<Str2("d", "a"), 1, 1>>, <<Str2("d", "b"), 1, 1>>}),
      TextFile(TRUE, {<<Str2("d", "a"), 2, 1>>, <<Str2("d", "b"), 2, 1>>,
                      <<Str2("d", "c"), 2, 1>>, <<Str2("d", "d"), 2, 1>>,
                      <<Str2("a", "b"), 1, 1>>, <<Str1("d"), 3, 1>>,
                      <<Str3("d", "d", "d"), 3, 0>>}) }

LongFiles ==
    { MissingFile,
      TextFile(TRUE, {<<Str1("d"), 3, 1>>, <<Str3("d", "d", "d"), 3, 0>>}) }

LaunchFiles ==
    { MissingFile,
      TextFile(TRUE, {<<Str2("d", "a"), 1, 1>>, <<Str1("b"), 1, 1>>}),
      TextFile(TRUE, {<<Str2("d", "a"), U64_MAX, 0>>,
                      <<Str1("b"), I64_MAX, 1>>}) }

LongQueries ==
    { <<>>, Str2("A", " ") }

Queries ==
    { <<>>, Str1(" "), Str2("A", " "), Str3("a", "b", "d"), Str1("C") }

\* the values now_unix() can return once it has returned t: SystemTime is
\* the wall clock, which may be set back between two readings
ClockReadings(t) == 0..MaxTime

\* What the last handler did: its name, its argument, its outcome, and for
\* a call of app_info.launch <<key of the entry, launch returned Ok>>
\* (<<>> otherwise)
Event(op, arg, ret, launch) ==
    [op |-> op, arg |-> arg, ret |-> ret, launch |-> launch]

----------------------------------------------------------------------------
(* The state machine.  When the process ends (app.quit() or a panic) its    *)
(* widgets and its ViewState are gone: the view variables return to their   *)
(* initial values.  usage keeps the snapshot the process held when it       *)
(* ended, until the next process start loads the file.                      *)

InitWith(regs, files, builds) ==
    /\ pc = "init"
    /\ overflow_checks \in builds
    /\ \E reg \in regs : apps = load_apps(reg)
    /\ usage = {}
    /\ file \in files
    /\ now = 0
    /\ query = <<>>
    /\ items = <<>>
    /\ offset = 0
    /\ selected_index = <<>>
    /\ results = <<>>
    /\ selected_row = <<>>
    /\ last_event = Event("none", <<>>, "ok", <<>>)
    /\ runs = 0

Init == InitWith({RegPair}, LaunchFiles, BOOLEAN)

InitView == InitWith(Registries, InitFiles, {FALSE})

InitLong == InitWith({RegLong}, LongFiles, {FALSE})

\* The process ends: the view is dropped
Exit(how) ==
    /\ pc' = how
    /\ query' = <<>>
    /\ items' = <<>>
    /\ offset' = 0
    /\ selected_index' = <<>>
    /\ results' = <<>>
    /\ selected_row' = <<>>

\* update_results(listbox, state, query, show_usage) against the usage map u;
\* when an overflow check fails inside build_view_items the process aborts.
UpdateResults(op, q, u) ==
    IF overflow_checks /\ BuildOverflows(apps, q, u)
    THEN /\ Exit("panicked")
         /\ last_event' = Event(op, q, "panic", <<>>)
    ELSE \E its \in {build_view_items(apps, q, u)} :
         \E sel \in {first_selectable_index(its)} :
            /\ pc' = "running"
            /\ query' = q
            /\ items' = its
            /\ offset' = 0
            /\ selected_index' = sel
            /\ results' = render_results(its, 0)
            /\ selected_row' = render_selected_row(its, 0, sel)
            /\ last_event' = Event(op, q, "ok", <<>>)

\* A process start: LauncherState::new(), then build_ui's refresh_results
Start ==
    /\ pc # "running"
    /\ runs < MaxRuns
    /\ runs' = runs + 1
    /\ usage' = load_usage(file)
    /\ UpdateResults("start", <<>>, load_usage(file))
    /\ UNCHANGED <<overflow_checks, apps, file, now>>

\* The mutant of QueryChanged: the handler also saves the usage snapshot
QueryChanged_saves(q) ==
    /\ pc = "running"
    /\ q # query
    /\ UpdateResults("update_results", q, usage)
    /\ file' = TextFile(TRUE, to_string(usage))
    /\ UNCHANGED <<overflow_checks, apps, usage, now, runs>>

\* connect_entry_change_handler: the entry text changed to q
QueryChanged(q) ==
    /\ pc = "running"
    /\ q # query
    /\ UpdateResults("update_results", q, usage)
    /\ UNCHANGED <<overflow_checks, apps, usage, file, now, runs>>

\* move_selection(listbox, state, direction, show_usage): Down is 1, Up is -1
MoveSelection(direction) ==
    /\ pc = "running"
    /\ IF selected_index = <<>>
       THEN \E sel \in {first_selectable_index(items)} :
            \E off \in {ensure_visible(items, offset, sel)} :
               /\ selected_index' = sel
               /\ offset' = off
               /\ results' = render_results(items, off)
               /\ selected_row' = render_selected_row(items, off, sel)
       ELSE \E next \in {next_selectable_index(items, selected_index[1],
                                                  direction)} :
            \E off \in {ensure_visible(items, offset, next)} :
               IF next # <<>>
               THEN /\ selected_index' = next
                    /\ offset' = off
                    /\ results' = render_results(items, off)
                    /\ selected_row' = render_selected_row(items, off, next)
               ELSE UNCHANGED <<selected_index, offset, results, selected_row>>
    /\ last_event' = Event("move_selection", direction, "ok", <<>>)
    /\ UNCHANGED <<pc, overflow_checks, apps, usage, file, now, query, items,
                   runs>>

\* The mutant of SavedSnapshot: save_usage runs before record_usage
SavedSnapshotStale(before, after) == before

\* The snapshot save_usage is given, of the usage map before and after
\* record_usage: launch_from_index records, then saves
SavedSnapshot(before, after) == after

\* The mutant of LaunchSucceeds: a failed launch is treated as a success
LaunchSucceedsAlways(ok) == TRUE

\* app.app_info.launch(..) returned Ok
LaunchSucceeds(ok) == ok

ViewVars == <<query, items, offset, selected_index, results>>

\* launch_from_index(index, results, usage) and the caller's app.quit() on
\* true.  ok is the outcome of app_info.launch for a row that has an entry;
\* highlighted is the selected row of the listbox when the handler runs.
\* last_event.ret is "no_row" or "launch_failed" (false is returned), or
\* "saved" or "not_saved" (true is returned; save_usage wrote the file or not).
LaunchFromIndex(op, index, highlighted) ==
    IF index < 0 \/ index >= Len(results)
    THEN /\ last_event' = Event(op, index, "no_row", <<>>)
         /\ selected_row' = highlighted
         /\ UNCHANGED <<pc, usage, file, now, ViewVars>>
    ELSE IF results[index + 1] = NoApp
    THEN /\ last_event' = Event(op, index, "no_row", <<>>)
         /\ selected_row' = highlighted
         /\ UNCHANGED <<pc, usage, file, now, ViewVars>>
    ELSE \E ok \in BOOLEAN :
           IF ~LaunchSucceeds(ok)
           THEN /\ last_event' = Event(op, index, "launch_failed",
                                       <<results[index + 1].app.key, ok>>)
                /\ selected_row' = highlighted
                /\ UNCHANGED <<pc, usage, file, now, ViewVars>>
           ELSE \E t \in ClockReadings(now) :
                  LET key == results[index + 1].app.key
                      recorded == record_usage(key, usage, t)
                  IN \E out \in save_usage_outcomes(
                                    SavedSnapshot(usage, recorded), file) :
                       /\ usage' = recorded
                       /\ file' = out.file
                       /\ now' = t
                       /\ Exit("quit")
                       /\ last_event' =
                            Event(op, index,
                                  IF out.ok THEN "saved" ELSE "not_saved",
                                  <<key, ok>>)

\* connect_listbox_activation: row index of the listbox was activated.  The
\* listbox (SelectionMode::Single) selects a row before it emits
\* row-activated for it; a section row is not selectable.
ActivateRow(index) ==
    /\ pc = "running"
    /\ LaunchFromIndex("activate", index,
                       IF /\ index >= 0 /\ index < Len(results)
                          /\ results[index + 1] # NoApp
                       THEN <<index>> ELSE selected_row)
    /\ UNCHANGED <<overflow_checks, apps, runs>>

\* connect_entry_key_handler, Return or KP_Enter
PressReturn ==
    /\ pc = "running"
    /\ LET row == IF selected_row # <<>> THEN selected_row
                  ELSE first_selectable_row(results)
       IN IF row = <<>>
          THEN /\ last_event' = Event("return", 0 - 1, "no_row", <<>>)
               /\ UNCHANGED <<pc, usage, file, now, ViewVars, selected_row>>
          ELSE LaunchFromIndex("return", row[1], selected_row)
    /\ UNCHANGED <<overflow_checks, apps, runs>>

\* connect_entry_key_handler, Escape
PressEscape ==
    /\ pc = "running"
    /\ Exit("quit")
    /\ last_event' = Event("escape", <<>>, "ok", <<>>)
    /\ UNCHANGED <<overflow_checks, apps, usage, file, now, runs>>

Next ==
    \/ Start
    \/ \E q \in Queries : QueryChanged(q)
    \/ \E direction \in {1, 0 - 1} : MoveSelection(direction)
    \/ \E index \in (0 - 1)..Len(results) : ActivateRow(index)
    \/ PressReturn
    \/ PressEscape

Spec == Init /\ [][Next]_vars

\* The view events alone, over every catalog
NextView ==
    \/ Start
    \/ \E q \in Queries : QueryChanged(q)
    \/ \E direction \in {1, 0 - 1} : MoveSelection(direction)
    \/ PressEscape

SpecView == InitView /\ [][NextView]_vars

\* The view events over the long catalog
NextLong ==
    \/ Start
    \/ \E q \in LongQueries : QueryChanged(q)
    \/ \E direction \in {1, 0 - 1} : MoveSelection(direction)
    \/ PressEscape

SpecLong == InitLong /\ [][NextLong]_vars

----------------------------------------------------------------------------
(* Claims *)

Selected == selected_index[1]

\* the Entry items among the items of the zero-based indices lo..hi
EntriesIn(its, lo, hi) == {k \in lo..hi : IsApp(its[k + 1])}

\* C1: selected_index is None or an index inside items that points at an
\* Entry (ViewItem::App), never at a Header and never out of range.
C1_SelectedIsEntry ==
    selected_index # <<>> =>
        /\ Selected \in 0..(Len(items) - 1)
        /\ IsApp(items[Selected + 1])

\* A navigation step has moved the selection down across a Header
C1_Witness ==
    /\ last_event.op = "move_selection"
    /\ last_event.arg = 1
    /\ selected_index # <<>>
    /\ Selected >= 2
    /\ ~IsApp(items[Selected])
    /\ IsApp(items[Selected - 1])

\* C2: whenever selected_index is set, offset <= selected and selected is
\* among the items from offset up to and including the 10th Entry counted
\* from offset, which is the slice render_view draws.
C2_SelectedVisible ==
    selected_index # <<>> =>
        /\ offset <= Selected
        /\ Cardinality(EntriesIn(items, offset, Selected)) <= MAX_RESULTS
        /\ selected_row # <<>>
        /\ results[selected_row[1] + 1] = items[Selected + 1]

\* Navigation has scrolled the window down to keep the selection visible
C2_Witness ==
    /\ last_event.op = "move_selection"
    /\ selected_index # <<>>
    /\ offset > 0
    /\ Cardinality(EntriesIn(items, 0, Selected)) > MAX_RESULTS

\* The Entry nearest to cur in the given direction, as a set: empty when
\* there is none
NearestEntry(its, cur, direction) ==
    LET beyond == {k \in 0..(Len(its) - 1) :
                     /\ IsApp(its[k + 1])
                     /\ IF direction = 1 THEN k > cur ELSE k < cur}
    IN {k \in beyond : \A m \in beyond :
                          IF direction = 1 THEN k <= m ELSE k >= m}

\* C3: move_selection(direction) with an Entry selected selects the nearest
\* Entry strictly after (+1) or strictly before (-1) the current index,
\* skipping the Headers in between; when there is none in that direction,
\* selected_index and offset are both left unchanged (no wraparound).
C3_MoveSelection ==
    [][(/\ pc = "running"
        /\ selected_index # <<>>
        /\ last_event'.op = "move_selection")
       => LET nearest == NearestEntry(items, Selected, last_event'.arg)
          IN IF nearest = {}
             THEN selected_index' = selected_index /\ offset' = offset
             ELSE /\ selected_index' # <<>>
                  /\ selected_index'[1] \in nearest]_vars

\* On [Header, A, B, Header, C, ..] a move down from B has selected C
C3_Witness ==
    /\ last_event.op = "move_selection"
    /\ last_event.arg = 1
    /\ Len(items) >= 5
    /\ ~IsApp(items[1]) /\ IsApp(items[2]) /\ IsApp(items[3])
    /\ ~IsApp(items[4]) /\ IsApp(items[5])
    /\ selected_index = <<4>>

----------------------------------------------------------------------------
(* Claims about the item assembly *)

IdleMode == pc = "running" /\ trim(query) = <<>>
QueryMode == pc = "running" /\ trim(query) # <<>>

\* how often the catalog entry app occurs among the Entry items
Occurrences(its, app) ==
    Cardinality({k \in 1..Len(its) : IsApp(its[k]) /\ its[k].app = app})

\* the zero-based positions of the Headers with the given title
HeaderAt(its, title) == {k \in 0..(Len(its) - 1) : its[k + 1] = Header(title)}

\* C4: in idle mode the Entry items under "Frequently Used" followed by
\* those under "All Apps" contain every catalog entry exactly once.
C4_IdleCoversCatalogOnce ==
    IdleMode =>
        /\ \A i \in 1..Len(apps) : Occurrences(items, apps[i]) = 1
        /\ \A k \in 1..Len(items) :
              IsApp(items[k]) => \E i \in 1..Len(apps) : apps[i] = items[k].app

\* count * 1000 + last_used, as a number
IdleRank(app) ==
    UsageGet(usage, app.key).count * 1000 + UsageGet(usage, app.key).last_used

\* a may stand before b in the idle ranking of the claim: a higher score,
\* or the same score and a case-insensitive name that is not greater
IdleRankedBefore(a, b) ==
    \/ IdleRank(a) > IdleRank(b)
    \/ /\ IdleRank(a) = IdleRank(b)
       /\ ~StrLess(to_lowercase(b.name), to_lowercase(a.name))

\* C5: in idle mode "Frequently Used" holds at most 5 entries, each with a
\* usage record, and they are the top of the idle ranking: descending
\* count * 1000 + last_used, ties by ascending case-insensitive name.  The
\* "Frequently Used" header is there only when some catalog entry has a
\* usage record; the "All Apps" header is always there.
C5_FrequentlyUsed ==
    IdleMode =>
        LET withUsage == {i \in 1..Len(apps) : HasUsage(usage, apps[i].key)}
            all == CHOOSE k \in HeaderAt(items, "All Apps") : TRUE
            \* the zero-based positions of the "Frequently Used" entries
            fu == IF HeaderAt(items, "Frequently Used") = {} THEN {}
                  ELSE 1..(all - 1)
        IN /\ Cardinality(HeaderAt(items, "All Apps")) = 1
           /\ HeaderAt(items, "Frequently Used") =
                 (IF withUsage = {} THEN {} ELSE {0})
           /\ Cardinality(fu) = Min(Cardinality(withUsage), MAX_FREQUENT)
           /\ \A k \in fu : /\ IsApp(items[k + 1])
                            /\ HasUsage(usage, items[k + 1].app.key)
           /\ \A k \in fu : \A m \in fu :
                 k < m => IdleRankedBefore(items[k + 1].app, items[m + 1].app)
           /\ \A k \in fu : \A i \in withUsage :
                 (\A m \in fu : items[m + 1].app # apps[i])
                    => IdleRankedBefore(items[k + 1].app, apps[i])

\* the score build_view_items sorts the entry by in query mode
RankScore(app) ==
    Force(score_match(app.name, query), LAMBDA base :
      IF HasUsage(usage, app.key)
      THEN QueryScore(base[1], UsageGet(usage, app.key))
      ELSE base[1])

\* C6: in query mode the items are ordered by descending score, and two
\* entries of equal score by ascending case-insensitive display name.
C6_QueryOrder ==
    QueryMode =>
        \A k \in 1..Len(items) : \A m \in 1..Len(items) :
            k < m =>
               \/ RankScore(items[k].app) > RankScore(items[m].app)
               \/ /\ RankScore(items[k].app) = RankScore(items[m].app)
                  /\ ~StrLess(to_lowercase(items[m].app.name),
                              to_lowercase(items[k].app.name))

\* the name contains the trimmed query case-insensitively, or its
\* similarity to the query is at least 0.75
Matches(name, q) ==
    \E name_l \in {to_lowercase(name)} : \E query_l \in {to_lowercase(trim(q))} :
        \/ contains(name_l, query_l)
        \/ \E sim \in {jaro_winkler(name_l, query_l)} : 4 * sim[1] >= 3 * sim[2]

\* C7: in query mode the item list has no Header and holds a catalog entry,
\* exactly once, if and only if its name contains the query or is similar
\* enough; nothing is cut off, however many entries match.
C7_QueryMembership ==
    QueryMode =>
        /\ \A k \in 1..Len(items) : IsApp(items[k])
        /\ \A i \in 1..Len(apps) :
              Occurrences(items, apps[i]) =
                 (IF Matches(apps[i].name, query) THEN 1 ELSE 0)
        /\ \A k \in 1..Len(items) : \E i \in 1..Len(apps) :
              apps[i] = items[k].app

\* A query has kept an entry for its similarity alone and left an entry out
C7_Witness ==
    /\ QueryMode
    /\ \E k \in 1..Len(items) :
          ~contains(to_lowercase(items[k].app.name), to_lowercase(trim(query)))
    /\ Len(items) < Len(apps)

----------------------------------------------------------------------------
(* Claims about the launch path and the usage store *)

\* C8: a launch that fails writes no usage record: launch_from_index
\* returns false, the usage snapshot and the persisted file are unchanged,
\* the application does not quit and the view state is unchanged; usage
\* changes in a running process only by a launch that succeeded.
C8_FailedLaunch ==
    [][/\ (/\ last_event'.launch # <<>>
           /\ ~last_event'.launch[2])
          => /\ last_event'.ret = "launch_failed"
             /\ usage' = usage /\ file' = file /\ pc' = pc
             /\ items' = items /\ offset' = offset
             /\ selected_index' = selected_index
       /\ (pc = "running" /\ (usage' # usage \/ file' # file))
          => /\ last_event'.launch # <<>>
             /\ last_event'.launch[2]]_vars

\* app_info.launch has failed for an entry that has a usage record
C8_Witness ==
    /\ pc = "running"
    /\ last_event.ret = "launch_failed"
    /\ last_event.launch # <<>>
    /\ ~last_event.launch[2]
    /\ HasUsage(usage, last_event.launch[1])

\* the count record_usage leaves for key, given the snapshot before it
CountAfterRecord(u, key) ==
    IF HasUsage(u, key)
    THEN (IF UsageGet(u, key).count = U64_MAX THEN U64_MAX
          ELSE UsageGet(u, key).count + 1)
    ELSE 1

\* C9: after a successful launch, record and then save have run before
\* launch_from_index returns true and the application quits: when the write
\* succeeds the persisted file equals the in-memory snapshot, which holds
\* the incremented record, and the next process start loads that snapshot.
C9_RecordThenSave ==
    [][/\ (last_event'.ret = "saved" /\ last_event' # last_event)
          => /\ pc' = "quit"
             /\ load_usage(file') = usage'
             /\ HasUsage(usage', last_event'.launch[1])
             /\ UsageGet(usage', last_event'.launch[1]).count =
                   CountAfterRecord(usage, last_event'.launch[1])
       /\ (last_event.ret = "saved" /\ last_event'.op = "start")
          => /\ usage' = usage
             /\ HasUsage(usage', last_event.launch[1])]_vars

\* A second process runs on the snapshot that the launch of the first one
\* incremented and saved
C9_Witness ==
    /\ pc = "running"
    /\ runs = 2
    /\ last_event.op = "start"
    /\ \E r \in usage : r.count = 2 /\ r.last_used = now

\* C10: the snapshot keeps at most one record per identity; a record
\* operation removes no record and leaves the records of other identities
\* untouched; record(identity) creates the record with count 1 or raises
\* its count by exactly 1, saturating at the maximum; no count decreases.
C10_RecordUsage ==
    [][/\ \A r1 \in usage' : \A r2 \in usage' : r1.key = r2.key => r1 = r2
       /\ pc = "running"
          => /\ UsageKeys(usage) \subseteq UsageKeys(usage')
             /\ \A r \in usage : \A r2 \in usage' :
                   r2.key = r.key => r2.count >= r.count
             /\ usage' # usage
                => \E key \in UsageKeys(usage') :
                     /\ \A r \in usage : r.key # key => r \in usage'
                     /\ \A r2 \in usage' : r2.key # key => r2 \in usage
                     /\ \A r2 \in usage' :
                           r2.key = key
                             => r2.count = CountAfterRecord(usage, key)]_vars

\* A launch has recorded an identity whose count was at the maximum
C10_Witness ==
    /\ last_event.launch # <<>>
    /\ last_event.launch[2]
    /\ \E r \in usage : r.key = last_event.launch[1] /\ r.count = U64_MAX

----------------------------------------------------------------------------
(* Claims about loading and drawing *)

\* the file is missing, unreadable, cut short, or holds a number that is
\* no unsigned integer of the width
Unloadable(f) ==
    \/ f.kind \in {"missing", "unreadable"}
    \/ /\ f.kind = "text"
       /\ \/ ~f.complete
          \/ \E m \in f.members : m[2] < 0 \/ m[2] > U64_MAX
                                    \/ m[3] < 0 \/ m[3] > U64_MAX

\* C11: load never reports an error: a process start on a usage file that
\* is missing, unreadable or malformed comes up running with an empty
\* snapshot, and its idle view has no "Frequently Used" section: it is the
\* "All Apps" header followed by the whole catalog.
C11_LoadNeverFails ==
    [][(pc # "running" /\ runs' = runs + 1 /\ Unloadable(file))
          => /\ pc' = "running"
             /\ last_event' = Event("start", <<>>, "ok", <<>>)
             /\ usage' = {}
             /\ HeaderAt(items', "Frequently Used") = {}
             /\ items' = <<Header("All Apps")>> \o MapSeq(apps, App)]_vars

\* A process has started on a text that ends early, after a first member
C11_Witness ==
    /\ pc = "running"
    /\ last_event.op = "start"
    /\ file.kind = "text"
    /\ ~file.complete
    /\ file.members # {}
    /\ Len(items) > 1

\* the zero-based indices of the slice of the claim: from off to the 10th
\* Entry counted from off, or to the end when there are fewer
DrawnSlice(its, off) ==
    LET tenth == {k \in off..(Len(its) - 1) :
                    /\ IsApp(its[k + 1])
                    /\ Cardinality(EntriesIn(its, off, k)) = MAX_RESULTS}
    IN IF tenth = {} THEN off..(Len(its) - 1)
       ELSE off..(CHOOSE k \in tenth : TRUE)

\* C12: the rows render_view draws are the items from offset up to the end
\* of the items or up to and including the 10th Entry, whichever comes
\* first; no Header after the 10th Entry is drawn and at most 10 Entry rows
\* are drawn.
C12_DrawnSlice ==
    pc = "running" =>
        /\ {offset + r - 1 : r \in 1..Len(results)} = DrawnSlice(items, offset)
        /\ \A r \in 1..Len(results) :
              offset + r <= Len(items)
                 => results[r] = (IF IsApp(items[offset + r])
                                  THEN items[offset + r] ELSE NoApp)
        /\ Cardinality({r \in 1..Len(results) : results[r] # NoApp})
              <= MAX_RESULTS

\* The slice holds a Header between its Entry rows and stops at its 10th
\* Entry, before the end of the items
C12_Witness ==
    /\ pc = "running"
    /\ Cardinality({r \in 1..Len(results) : results[r] # NoApp}) = MAX_RESULTS
    /\ offset + Len(results) < Len(items)
    /\ \E r \in 2..Len(results) : results[r] = NoApp

\* the index of the first Entry of its, as an Option
FirstEntry(its) ==
    LET entries == EntriesIn(its, 0, Len(its) - 1)
    IN IF entries = {} THEN <<>>
       ELSE <<CHOOSE k \in entries : \A m \in entries : k <= m>>

\* C13: every query-changed event, from any view state, rebuilds the items
\* from the new query and leaves offset = 0 and selected_index = the index
\* of the first Entry of the new items, or None when they hold no Entry.
C13_QueryChangedResets ==
    [][(pc = "running" /\ last_event'.op = "update_results")
          => /\ query' = last_event'.arg
             /\ items' = build_view_items(apps, query', usage)
             /\ offset' = 0
             /\ selected_index' = FirstEntry(items')
             /\ (selected_index' = <<>>)
                   <=> (\A k \in 1..Len(items') : ~IsApp(items'[k]))]_vars

\* A query that matches no entry of a catalog that has entries has left no
\* item and no selection
C13_Witness ==
    /\ QueryMode
    /\ last_event.op = "update_results"
    /\ Len(apps) > 0
    /\ items = <<>>
    /\ selected_index = <<>>
    /\ offset = 0

----------------------------------------------------------------------------
(* Claims about the ranking *)

\* the position of the entry in the catalog
CatalogIndex(app) == CHOOSE i \in 1..Len(apps) : apps[i] = app

\* a, of score sa, stands before b, of score sb, in the strict total order
\* on catalog entries that leaves no choice: the higher score, then the
\* byte-wise smaller name, then the earlier place in the catalog
FixedBefore(sa, a, sb, b) ==
    \/ sa > sb
    \/ sa = sb /\ StrLess(a.name, b.name)
    \/ sa = sb /\ a.name = b.name /\ CatalogIndex(a) < CatalogIndex(b)

\* the one-based positions of the Entry items under "Frequently Used" and
\* under "All Apps"
FrequentPositions(its) ==
    IF HeaderAt(its, "Frequently Used") = {} THEN {}
    ELSE {k \in 1..Len(its) :
            IsApp(its[k]) /\ \A h \in HeaderAt(its, "All Apps") : k <= h}

RestPositions(its) ==
    {k \in 1..Len(its) :
       IsApp(its[k]) /\ \A h \in HeaderAt(its, "All Apps") : k > h + 1}

\* the idle score the code sorts the entry by
IdleSortScore(app) == IdleScore(UsageGet(usage, app.key))

\* C14: the ranking is deterministic.  The items of every state are what a
\* second run of build_view_items on the catalog, the query and the usage
\* snapshot of the state returns, and their order is fixed by a strict
\* total order on the catalog entries (score, then name, then catalog
\* position), so that nothing is left to the iteration order of the usage
\* map or of the set of frequent keys.
C14_Deterministic ==
    pc = "running" =>
        /\ items = build_view_items(apps, query, usage)
        /\ QueryMode =>
              \A k \in 1..Len(items) : \A m \in 1..Len(items) :
                  k < m => FixedBefore(RankScore(items[k].app), items[k].app,
                                       RankScore(items[m].app), items[m].app)
        /\ IdleMode =>
              /\ \A k \in FrequentPositions(items) :
                 \A m \in FrequentPositions(items) :
                    k < m => FixedBefore(IdleSortScore(items[k].app), items[k].app,
                                         IdleSortScore(items[m].app), items[m].app)
              /\ \A k \in FrequentPositions(items) : \A i \in 1..Len(apps) :
                    (/\ HasUsage(usage, apps[i].key)
                     /\ \A m \in FrequentPositions(items) :
                           items[m].app # apps[i])
                       => FixedBefore(IdleSortScore(items[k].app), items[k].app,
                                      IdleSortScore(apps[i]), apps[i])
              /\ \A k \in RestPositions(items) : \A m \in RestPositions(items) :
                    k < m => CatalogIndex(items[k].app)
                               < CatalogIndex(items[m].app)

\* Two entries of the same name and the same idle score compete for the
\* last place under "Frequently Used": the earlier of the catalog has it
C14_Witness ==
    /\ IdleMode
    /\ Cardinality(FrequentPositions(items)) = MAX_FREQUENT
    /\ \E i \in 1..Len(apps) : \E j \in 1..Len(apps) :
          /\ i < j
          /\ apps[i].name = apps[j].name
          /\ HasUsage(usage, apps[i].key) /\ HasUsage(usage, apps[j].key)
          /\ IdleSortScore(apps[i]) = IdleSortScore(apps[j])
          /\ \E k \in FrequentPositions(items) : items[k].app = apps[i]
          /\ \A k \in FrequentPositions(items) : items[k].app # apps[j]

----------------------------------------------------------------------------
(* Claims about the usage round trip and the scores *)

\* C15: a save that succeeds followed by a load returns the snapshot saved;
\* the first record of an identity leaves count 1, and a second record of
\* it leaves count 2 and a last_used that is not smaller than the one the
\* first record left.
C15_RoundTrip ==
    [][(pc = "running" /\ pc' = "quit" /\ last_event'.launch # <<>>)
          => LET key == last_event'.launch[1]
             IN /\ last_event'.ret = "saved" => load_usage(file') = usage'
                /\ ~HasUsage(usage, key)
                      => UsageGet(usage', key).count = 1
                /\ (HasUsage(usage, key) /\ UsageGet(usage, key).count = 1)
                      => /\ UsageGet(usage', key).count = 2
                         /\ UsageGet(usage', key).last_used
                               >= UsageGet(usage, key).last_used]_vars

\* C17: for every usage record whose count and last_used are unsigned
\* values of the full width, the idle score is the number
\* count * 1000 + last_used: computing it neither aborts the process nor
\* wraps, and "Frequently Used" is in descending order of that number.
C17_IdleScoreExact ==
    /\ pc # "panicked"
    /\ IdleMode =>
          /\ \A i \in 1..Len(apps) :
                HasUsage(usage, apps[i].key)
                   => IdleSortScore(apps[i]) = IdleRank(apps[i])
          /\ \A k \in FrequentPositions(items) :
             \A m \in FrequentPositions(items) :
                k < m => IdleRank(items[k].app) >= IdleRank(items[m].app)

\* the name contains the trimmed query, case-insensitively
SubstringMatch(app) ==
    contains(to_lowercase(app.name), to_lowercase(trim(query)))

\* the usage count of the entry, as an Option
CountOf(app) ==
    IF HasUsage(usage, app.key) THEN <<UsageGet(usage, app.key).count>>
    ELSE <<>>

\* C18: in query mode an entry whose name contains the trimmed query scores
\* 1000 - max(0, len(name) - len(query)), plus 10 * count when it has a
\* usage record; of two such entries with the same usage count the one
\* with the shorter name is not listed after the other.
C18_SubstringScore ==
    QueryMode =>
        /\ \A k \in 1..Len(items) :
              SubstringMatch(items[k].app)
                 => RankScore(items[k].app) =
                       1000 - Max(0, Len(items[k].app.name) - Len(trim(query)))
                         + (IF CountOf(items[k].app) # <<>>
                            THEN 10 * CountOf(items[k].app)[1] ELSE 0)
        /\ \A k \in 1..Len(items) : \A m \in 1..Len(items) :
              (/\ SubstringMatch(items[k].app)
               /\ SubstringMatch(items[m].app)
               /\ CountOf(items[k].app) = CountOf(items[m].app)
               /\ Len(items[k].app.name) < Len(items[m].app.name))
                 => k < m

----------------------------------------------------------------------------
(* Claims about scrolling *)

\* sel is among the items from off up to the 10th Entry counted from off
InWindow(its, off, sel) ==
    off <= sel /\ Cardinality(EntriesIn(its, off, sel)) <= MAX_RESULTS

\* C16: scrolling down is minimal.  When a navigation step moves the
\* selection below the window, the new offset is the smallest one from the
\* old offset on whose window holds the selection, and the selection is the
\* last Entry drawn.  On a list of more than 10 entries without Header
\* (25 of them, at the bound LongN), the selection at the last index n - 1
\* has offset n - 10 and exactly the entries n - 10 .. n - 1 drawn.
C16_ScrollDownMinimal ==
    [][/\ (/\ pc = "running"
           /\ last_event'.op = "move_selection"
           /\ selected_index' # <<>>
           /\ selected_index'[1] >= offset
           /\ ~InWindow(items, offset, selected_index'[1]))
          => /\ offset' > offset
             /\ InWindow(items, offset', selected_index'[1])
             /\ \A off \in offset..(offset' - 1) :
                   ~InWindow(items, off, selected_index'[1])
             /\ Cardinality(EntriesIn(items, offset', selected_index'[1]))
                   = MAX_RESULTS
             /\ results'[Len(results')] = items[selected_index'[1] + 1]
       /\ (/\ pc' = "running"
           /\ Len(items') > MAX_RESULTS
           /\ \A k \in 1..Len(items') : IsApp(items'[k])
           /\ selected_index' = <<Len(items') - 1>>)
          => /\ offset' = Len(items') - MAX_RESULTS
             /\ Len(results') = MAX_RESULTS
             /\ \A r \in 1..MAX_RESULTS :
                   results'[r] = items'[Len(items') - MAX_RESULTS + r]]_vars

\* On 25 entries without Header the selection has gone down to index 24:
\* the offset is 15
C16_Witness ==
    /\ last_event.op = "move_selection"
    /\ last_event.arg = 1
    /\ Len(items) = 25
    /\ \A k \in 1..Len(items) : IsApp(items[k])
    /\ selected_index = <<24>>
    /\ offset = 15
    /\ Len(results) = 10
    /\ results[1] = items[16]

\* C19: scrolling up.  When a navigation step upwards moves the selection
\* to an Entry whose index is smaller than offset, offset becomes that
\* index and the Entry is the first row drawn; an upward step changes
\* offset in no other case.
C19_ScrollUp ==
    [][(/\ pc = "running"
        /\ last_event'.op = "move_selection"
        /\ last_event'.arg = 0 - 1)
          => IF selected_index' # <<>> /\ selected_index'[1] < offset
             THEN /\ Len(items) > MAX_RESULTS
                  /\ offset' = selected_index'[1]
                  /\ results'[1] = items[selected_index'[1] + 1]
                  /\ selected_row' = <<0>>
             ELSE offset' = offset]_vars

\* After a step upwards the selection is the first row of a window that
\* does not start at the first item
C19_Witness ==
    /\ last_event.op = "move_selection"
    /\ last_event.arg = 0 - 1
    /\ selected_index # <<>>
    /\ offset = Selected
    /\ offset > 1
    /\ offset + Len(results) < Len(items)

----------------------------------------------------------------------------
(* Claims about the row table and the activation *)

\* the row render_view pushes for the item
RowOf(item) == IF IsApp(item) THEN item ELSE NoApp

\* C20: after every query-changed or navigation event row i of the row
\* table holds the Entry of the i-th item drawn (None for a Header).
\* Activating row i launches that entry; activating a Header row, a
\* negative index or an index past the rows launches nothing, records
\* nothing and returns false.  Activating the highlighted row (Return)
\* launches items[selected_index].
C20_RowsAndActivation ==
    [][/\ (pc' = "running"
            /\ last_event'.op \in {"start", "update_results", "move_selection"})
          => /\ offset' + Len(results') <= Len(items')
             /\ \A r \in 1..Len(results') :
                   results'[r] = RowOf(items'[offset' + r])
       /\ (pc = "running" /\ last_event'.op = "activate"
            /\ last_event' # last_event)
          => IF /\ last_event'.arg >= 0
                /\ last_event'.arg < Len(results)
                /\ IsApp(items[offset + last_event'.arg + 1])
             THEN /\ last_event'.launch # <<>>
                  /\ last_event'.launch[1] =
                        items[offset + last_event'.arg + 1].app.key
             ELSE /\ last_event'.launch = <<>>
                  /\ last_event'.ret = "no_row"
                  /\ usage' = usage /\ file' = file /\ pc' = pc
       /\ (pc = "running" /\ last_event'.op = "return"
            /\ last_event' # last_event /\ selected_index # <<>>)
          => /\ last_event'.launch # <<>>
             /\ last_event'.launch[1] = items[Selected + 1].app.key]_vars

----------------------------------------------------------------------------
(* Claims about termination and frame *)

\* the number of times the outer loop of ensure_visible raises the offset
\* when entered at off, counted up to fuel + 1: a value above fuel says
\* that the loop has not exited after fuel increments
RECURSIVE LoopIncrements(_, _, _, _)
LoopIncrements(its, off, selected, fuel) ==
    IF EnsureVisibleExits(its, off, selected) THEN 0
    ELSE IF fuel = 0 THEN 1
    ELSE 1 + LoopIncrements(its, saturating_add(off, 1), selected, fuel - 1)

\* the item lists of length ShapeLen with at most two Headers, anywhere
ShapeLists(entry) ==
    {[k \in 1..ShapeLen |-> IF k \in hs THEN Header("All Apps") ELSE entry] :
        hs \in {h \in SUBSET (1..ShapeLen) : Cardinality(h) <= 2}}

\* ensure_visible on the items its, entered with the offset off and the
\* selected index sel: the loop exits after at most Len(its) increments and
\* the offset it leaves is inside its
TerminatesAt(its, off, sel) ==
    \E n \in {LoopIncrements(its, off, sel, Len(its))} :
    \E new \in {ensure_visible(its, off, <<sel>>)} :
        /\ n <= Len(its)
        /\ new < Len(its)
        /\ (Len(its) > MAX_RESULTS /\ sel >= off) => new = off + n

\* the same from every offset and for every selected index inside its
TerminatesOn(its) ==
    \A sel \in 0..(Len(its) - 1) : \A off \in 0..(Len(its) + 1) :
        TerminatesAt(its, off, sel)

\* C21: ensure_visible always terminates.  For every item list the events
\* build, and for item lists with Headers in any place, with any offset and
\* any selected index inside the items, the loop that advances the offset
\* exits after at most Len(items) increments and leaves
\* offset < Len(items); so the navigation step of no reachable state
\* loops forever, in either direction.
C21_EnsureVisibleTerminates ==
    pc = "running" =>
        /\ last_event.op \in {"start", "update_results"} => TerminatesOn(items)
        /\ (last_event.op = "start" /\ apps # <<>>)
              => \A its \in ShapeLists(App(apps[1])) : TerminatesOn(its)
        /\ selected_index # <<>> =>
              /\ TerminatesAt(items, offset, Selected)
              /\ \A direction \in {1, 0 - 1} :
                    \A next \in {next_selectable_index(items, Selected,
                                                        direction)} :
                       next # <<>> => TerminatesAt(items, offset, next[1])

\* The selection is at an index from which the loop, entered at offset 0,
\* has to raise the offset as often as it ever does: to Len(items) - 10
C21_Witness ==
    /\ last_event.op = "move_selection"
    /\ selected_index = <<Len(items) - 1>>
    /\ Len(items) > 2 * MAX_RESULTS
    /\ LoopIncrements(items, 0, Selected, Len(items)) = Len(items) - MAX_RESULTS
    /\ offset = Len(items) - MAX_RESULTS

\* C22: only a successful launch changes usage data.  No event changes the
\* catalog; a query-changed or navigation event leaves the usage snapshot
\* and the persisted file as they are; and when a step of a running
\* process changes either of them, it is a launch that returned Ok.
C22_OnlyLaunchChangesUsage ==
    [][/\ apps' = apps
       /\ (pc = "running"
            /\ last_event'.op \in {"update_results", "move_selection", "escape"})
          => usage' = usage /\ file' = file
       /\ (pc = "running" /\ (usage' # usage \/ file' # file))
          => /\ last_event'.op \in {"activate", "return"}
             /\ last_event'.ret \in {"saved", "not_saved"}
             /\ last_event'.launch # <<>>
             /\ last_event'.launch[2]
             /\ usage' = record_usage(last_event'.launch[1], usage, now')]_vars

\* A query and a navigation step have run on a snapshot loaded from a file
\* with records, and both are as they were loaded
C22_Witness ==
    /\ pc = "running"
    /\ query # <<>>
    /\ last_event.op = "move_selection"
    /\ selected_index # <<>>
    /\ Selected > 0
    /\ usage # {}
    /\ file.kind = "text"
    /\ load_usage(file) = usage

=============================================================================
